---- MODULE Spec2Model ----
(***************************************************************************)
(* fanotify-cli: the event/permission multiplexing loop of src/main.rs,    *)
(* with the option defaulting of src/flags.rs and the named-flag           *)
(* enumerations of src/c_enum.rs.                                          *)
(*                                                                         *)
(* The process is single threaded.  The kernel (notification queue,        *)
(* descriptor table, pending permission events) and the operator (lines    *)
(* typed on the control input) are the environment.                        *)
(***************************************************************************)
EXTENDS Integers, Sequences, FiniteSets, TLC

\* ------------------------------------------------------------------ bounds
\* number of slots of fabuf (MAX_FANOTIFY_BUFS is 200 in the program)
MaxBufs == 3
\* highest descriptor number of the process' descriptor table
MaxFd == 5
\* number of lines the operator types on the control input
MaxLines == 2
\* number of reads of the notification handle
MaxReads == 1

\* ------------------------------------------------------- program constants
FAN_ACCESS == 1
FAN_MODIFY == 2
FAN_CLOSE_WRITE == 8
FAN_CLOSE_NOWRITE == 16
FAN_OPEN == 32
FAN_Q_OVERFLOW == 16384
FAN_ACCESS_PERM == 131072
FAN_OPEN_PERM == 65536
FAN_ONDIR == 1073741824
FAN_EVENT_ON_CHILD == 134217728
FAN_ALLOW == 1
FAN_DENY == 2
FANOTIFY_METADATA_VERSION == 3
\* mem::size_of::<libc::fanotify_event_metadata>()
MetadataSize == 24
STDIN_FILENO == 0
\* the descriptor fanotify_init returns: the lowest free one after 0, 1, 2
notify_fd == 3
\* the value the kernel stores in the fd field of a record without a file
FAN_NOFD == 0 - 1

None == <<"None">>
Some(v) == <<"Some", v>>
IsSome(o) == o[1] = "Some"
Unwrap(o) == o[2]

Ok == <<"Ok">>
Err(e) == <<"Err", e>>
IsErr(r) == r[1] = "Err"

\* ------------------------------------------------------------ bit algebra
RECURSIVE BitAnd(_, _)
BitAnd(x, y) ==
    IF x = 0 \/ y = 0 THEN 0
    ELSE (x % 2) * (y % 2) + 2 * BitAnd(x \div 2, y \div 2)

\* ------------------------------------------------------------------- text
\* Text is a sequence of characters, each a one-character string.
IsWhitespace(c) == c \in {" ", "\n", "\t", "\r"}

\* str::split(char::is_whitespace): the pieces between separators, empty
\* pieces included, one more piece than there are separators.
RECURSIVE SplitFrom(_, _, _)
SplitFrom(s, i, cur) ==
    IF i > Len(s) THEN <<cur>>
    ELSE IF IsWhitespace(s[i]) THEN <<cur>> \o SplitFrom(s, i + 1, <<>>)
    ELSE SplitFrom(s, i + 1, Append(cur, s[i]))

Split(s) == SplitFrom(s, 1, <<>>)

\* ------------------------------------------------------------ the c_enums
\* An enumeration of c_enum! is the sequence of its flag names and the
\* sequence of their discriminants (the libc constants), both in the order
\* of the declaration; a flag is its discriminant.
FanEventsNames ==
    << <<"F", "A", "N", "_", "A", "C", "C", "E", "S", "S">>,
       <<"F", "A", "N", "_", "M", "O", "D", "I", "F", "Y">>,
       <<"F", "A", "N", "_", "C", "L", "O", "S", "E", "_", "W", "R", "I", "T", "E">>,
       <<"F", "A", "N", "_", "C", "L", "O", "S", "E", "_", "N", "O", "W", "R", "I", "T", "E">>,
       <<"F", "A", "N", "_", "O", "P", "E", "N">>,
       <<"F", "A", "N", "_", "Q", "_", "O", "V", "E", "R", "F", "L", "O", "W">>,
       <<"F", "A", "N", "_", "A", "C", "C", "E", "S", "S", "_", "P", "E", "R", "M">>,
       <<"F", "A", "N", "_", "O", "P", "E", "N", "_", "P", "E", "R", "M">>,
       <<"F", "A", "N", "_", "O", "N", "D", "I", "R">>,
       <<"F", "A", "N", "_", "E", "V", "E", "N", "T", "_", "O", "N", "_", "C", "H", "I", "L", "D">> >>
FanEventsValues ==
    <<FAN_ACCESS, FAN_MODIFY, FAN_CLOSE_WRITE, FAN_CLOSE_NOWRITE, FAN_OPEN,
      FAN_Q_OVERFLOW, FAN_ACCESS_PERM, FAN_OPEN_PERM, FAN_ONDIR,
      FAN_EVENT_ON_CHILD>>

FanResponseNames ==
    << <<"F", "A", "N", "_", "A", "L", "L", "O", "W">>,
       <<"F", "A", "N", "_", "D", "E", "N", "Y">> >>
FanResponseValues == <<FAN_ALLOW, FAN_DENY>>

\* the first of the arms of a match that match
FirstArm(arms) == CHOOSE k \in arms : \A j \in arms : k <= j

\* mutant of from_str: a string is matched when a flag name begins it
from_str_Prefix(names, flags, s) ==
    LET arms == {k \in 1..Len(names) :
                    /\ Len(names[k]) <= Len(s)
                    /\ SubSeq(s, 1, Len(names[k])) = names[k]}
    IN  IF arms # {} THEN <<"Ok", flags[FirstArm(arms)]>>
        ELSE Err(<<"CEnumParseError", s>>)

\* <$name as FromStr>::from_str: `match s` with one arm per flag name, and
\* CEnumParseError::new(s) for every other string
from_str(names, flags, s) ==
    LET arms == {k \in 1..Len(names) : names[k] = s}
    IN  IF arms # {} THEN <<"Ok", flags[FirstArm(arms)]>>
        ELSE Err(<<"CEnumParseError", s>>)

\* <$name as AsRef<str>>::as_ref: `match self` with one arm per flag
as_ref(names, flags, flag) ==
    names[FirstArm({k \in 1..Len(flags) : flags[k] = flag})]

\* word.parse::<FanResponse>().ok(), as scan! calls it
FanResponse_from_str(w) ==
    LET r == from_str(FanResponseNames, FanResponseValues, w)
    IN  IF IsErr(r) THEN None ELSE Some(r[2])

Digits == <<"0", "1", "2", "3", "4", "5", "6", "7", "8", "9">>
IsDigit(c) == \E d \in 1..10 : Digits[d] = c
DigitValue(c) == (CHOOSE d \in 1..10 : Digits[d] = c) - 1

RECURSIVE DecimalValue(_, _)
DecimalValue(w, n) ==
    IF n = 0 THEN 0 ELSE DecimalValue(w, n - 1) * 10 + DigitValue(w[n])

\* <i32 as FromStr>::from_str: optional sign, at least one digit, nothing
\* else, value within the 32-bit range
i32_from_str(w) ==
    LET signed == Len(w) > 0 /\ w[1] \in {"+", "-"}
        body   == IF signed THEN Tail(w) ELSE w
        val    == DecimalValue(body, Len(body))
    IN  IF Len(body) = 0 \/ \E k \in 1..Len(body) : ~IsDigit(body[k])
        THEN None
        ELSE IF signed /\ w[1] = "-"
             THEN IF val - 1 <= 2147483647 THEN Some(0 - val) ELSE None
             ELSE IF val <= 2147483647 THEN Some(val) ELSE None

\* scan!(buf, FanResponse, i32): the first two pieces of the split, parsed
scan(buf) ==
    LET words == Split(buf)
    IN  << FanResponse_from_str(words[1]),
           IF Len(words) >= 2 THEN i32_from_str(words[2]) ELSE None >>

\* ---------------------------------------------------------------- options
\* A path is the sequence of its components below the root: /a/b is
\* <<"a", "b">>.  Path::starts_with compares whole components.
starts_with(path, base) ==
    /\ Len(base) <= Len(path)
    /\ \A k \in 1..Len(base) : path[k] = base[k]

\* the watch lists given on the command line, already canonical
WatchLists ==
    { << <<"a", "b">> >>,
      << <<"a">>, <<"b">> >>,
      << <<"a">>, <<"a", "b">> >> }

\* Opt as structopt fills it from the switches -r, -m, -f, -p and the
\* paths: without -r, with -r and -p, and with -r over each watch list
RawOpts ==
    { [recursive |-> FALSE, mount |-> FALSE, filesystem |-> FALSE,
       namespace |-> None, paths |-> << <<"a", "b">> >>],
      [recursive |-> TRUE, mount |-> FALSE, filesystem |-> FALSE,
       namespace |-> Some(1), paths |-> << <<"a", "b">> >>] }
    \cup
    [recursive : {TRUE}, mount : {FALSE}, filesystem : {FALSE},
     namespace : {None}, paths : WatchLists]

\* mutant of from_args_with_default: -f sets mount as well
from_args_with_default_Chain(raw) ==
    IF raw.filesystem THEN [raw EXCEPT !.recursive = TRUE, !.mount = TRUE]
    ELSE IF raw.mount THEN [raw EXCEPT !.recursive = TRUE]
    ELSE IF raw.recursive THEN [raw EXCEPT !.mount = TRUE]
    ELSE raw

\* Opt::from_args_with_default: the implication rules between the switches
\* (canonicalisation leaves the already canonical paths as they are)
from_args_with_default(raw) ==
    IF raw.filesystem THEN [raw EXCEPT !.recursive = TRUE]
    ELSE IF raw.mount THEN [raw EXCEPT !.recursive = TRUE]
    ELSE IF raw.recursive THEN [raw EXCEPT !.mount = TRUE]
    ELSE raw

\* ---------------------------------------------------- descriptors, records
Fds == 0..MaxFd
\* descriptors the kernel hands out with events: those above notify_fd
EventFds == (notify_fd + 1)..MaxFd

Closed == <<"Closed">>
\* an open file whose /proc/self/fd link cannot be read
NoLink == <<"NoLink">>

TargetPaths == { <<"a", "b", "c.txt">>, <<"a", "x.txt">> }

\* fs::read_link("/proc/self/fd/<fd>") against the descriptor table
read_link(files, fd) ==
    IF fd \notin DOMAIN files \/ files[fd] = Closed \/ files[fd] = NoLink
    THEN Err("ENOENT")
    ELSE <<"Ok", files[fd]>>

\* drop of File::from_raw_fd(fd): close(fd); the call is made whether or
\* not the number is open, and its result is ignored.  closes counts the
\* close calls on a number since the kernel last handed it out (0, 1, many).
close(st, fd) ==
    IF fd \in DOMAIN st.files
    THEN [st EXCEPT !.files[fd] = Closed,
                    !.closes[fd] = IF @ < 2 THEN @ + 1 ELSE @,
                    !.effects = Append(@, <<"close", fd>>)]
    ELSE [st EXCEPT !.effects = Append(@, <<"close", fd>>)]

\* mutant of IsPerm: only FAN_OPEN_PERM is tested
IsPerm_OpenOnly(mask) ==
    BitAnd(mask, FAN_OPEN_PERM) # 0

\* the test of handle_fanotify for a permission-class mask
IsPerm(mask) ==
    BitAnd(mask, FAN_OPEN_PERM) # 0 \/ BitAnd(mask, FAN_ACCESS_PERM) # 0

\* -------------------------------------------------------- handle_fanotify
\* mutant of stops: the declared length is not compared with the counter
stops_NoUpperCheck(nread, metadata) ==
    \/ nread < MetadataSize
    \/ metadata.event_len < MetadataSize

\* mutant of stops: the byte counter is compared with <= instead of <
stops_OffByOne(nread, metadata) ==
    \/ nread <= MetadataSize
    \/ metadata.event_len < MetadataSize
    \/ metadata.event_len > nread

\* the condition under which the loop over the slots breaks: too few bytes
\* left for a record, or a declared length that cannot be right
stops(nread, metadata) ==
    \/ nread < MetadataSize
    \/ metadata.event_len < MetadataSize
    \/ metadata.event_len > nread

\* mutant of dropped: the namespace is not looked at
dropped_IgnoreNamespace(opt_, path) ==
    /\ opt_.recursive
    /\ \E k \in 1..Len(opt_.paths) : ~starts_with(path, opt_.paths[k])

\* the path filter: recursive mode without a namespace, and a watched path
\* the resolved path does not start with
dropped(opt_, path) ==
    /\ opt_.recursive
    /\ ~IsSome(opt_.namespace)
    /\ \E k \in 1..Len(opt_.paths) : ~starts_with(path, opt_.paths[k])

\* the EventEntry built from a record and its resolved path
EventEntry(metadata, path) ==
    [mask |-> metadata.mask,
     fd   |-> IF metadata.fd >= 0 THEN Some(metadata.fd) ELSE None,
     pid  |-> IF metadata.pid >= 0 THEN Some(metadata.pid) ELSE None,
     path |-> path]

\* ------------------------------------------------------------- write_to
\* <i32 as Display>::fmt and <u32 as Display>::fmt: the decimal digits, a
\* minus sign before those of a negative number
RECURSIVE decimal(_)
decimal(n) ==
    IF n < 10 THEN <<Digits[n + 1]>>
    ELSE Append(decimal(n \div 10), Digits[(n % 10) + 1])

to_string(n) == IF n < 0 THEN <<"-">> \o decimal(0 - n) ELSE decimal(n)

\* EventEntry::display_field
display_field(f) == IF IsSome(f) THEN to_string(Unwrap(f)) ELSE <<"-">>

\* the bytes of a path: each component after a "/" (a component is kept
\* as one piece of text)
RECURSIVE as_bytes(_)
as_bytes(path) ==
    IF Len(path) = 0 THEN <<"/">>
    ELSE IF Len(path) = 1 THEN <<"/", path[1]>>
    ELSE as_bytes(SubSeq(path, 1, Len(path) - 1)) \o <<"/", path[Len(path)]>>

\* the loop `for m in FanEvents::values()` of write_to from flag k on:
\* what it appends to mask_buf
RECURSIVE mask_buf(_, _)
mask_buf(mask, k) ==
    IF k > Len(FanEventsValues) THEN <<>>
    ELSE (IF BitAnd(FanEventsValues[k], mask) # 0
          THEN as_ref(FanEventsNames, FanEventsValues, FanEventsValues[k])
                  \o <<"|">>
          ELSE <<>>)
         \o mask_buf(mask, k + 1)

\* mutant of write_to: the last character of mask_buf is not removed
write_to_NoTrim(entry) ==
    mask_buf(entry.mask, 1)
       \o <<"\t">> \o display_field(entry.fd)
       \o <<"\t">> \o display_field(entry.pid)
       \o <<"\t">> \o (IF IsSome(entry.path) THEN as_bytes(Unwrap(entry.path))
                       ELSE <<"-">>)

\* EventEntry::write_to: the text written to w
write_to(entry) ==
    LET buf == mask_buf(entry.mask, 1)
        trimmed == IF Len(buf) # 0 THEN SubSeq(buf, 1, Len(buf) - 1) ELSE buf
    IN  trimmed
           \o <<"\t">> \o display_field(entry.fd)
           \o <<"\t">> \o display_field(entry.pid)
           \o <<"\t">> \o (IF IsSome(entry.path)
                           THEN as_bytes(Unwrap(entry.path))
                           ELSE <<"-">>)

\* -------------------------------------------------- handle_fanotify, loop
\* One pass of the loop `for metadata in fabuf` from slot i on.  st carries
\* the remaining-byte counter, the descriptor table, and what the call has
\* done so far, in order: <<"inspect", i>> (fields of slot i were read: the
\* `||` of the break condition reads metadata.event_len only when nread
\* is at least the size of a record), <<"accept", i, nread>> (slot i
\* passed the checks; nread is the counter after the subtraction),
\* <<"resolve", i, path>>, <<"close", fd>>, <<"drop", i, path>> (the
\* filter), <<"print", i, entry>> (the output line, flushed); st.result is
\* what handle_fanotify returns.
RECURSIVE decode(_, _, _, _)
decode(fabuf_, opt_, i, st) ==
    IF i > Len(fabuf_) THEN st
    ELSE
    LET metadata == fabuf_[i]
        st0 == IF st.nread >= MetadataSize
               THEN [st EXCEPT !.effects = Append(@, <<"inspect", i>>)]
               ELSE st
    IN
    IF stops(st.nread, metadata) THEN st0
    ELSE IF metadata.vers # FANOTIFY_METADATA_VERSION
    THEN [st0 EXCEPT !.result = Err("EINVAL")]
    ELSE
    LET st1 == [st0 EXCEPT
                  !.nread = @ - metadata.event_len,
                  !.effects = Append(@, <<"accept", i,
                                          st0.nread - metadata.event_len>>)]
        emit(s, path) ==
            [s EXCEPT !.effects =
                          Append(@, <<"print", i, EventEntry(metadata, path)>>)]
    IN
    IF metadata.fd >= 0
    THEN LET link == read_link(st1.files, metadata.fd) IN
         IF IsErr(link) THEN [st1 EXCEPT !.result = link]
         ELSE
         LET path == link[2]
             st2  == [st1 EXCEPT
                        !.effects = Append(@, <<"resolve", i, path>>)]
             st3  == IF IsPerm(metadata.mask) THEN st2
                     ELSE close(st2, metadata.fd)
         IN  IF dropped(opt_, path)
             THEN decode(fabuf_, opt_, i + 1,
                         [st3 EXCEPT
                            !.effects = Append(@, <<"drop", i, path>>)])
             ELSE decode(fabuf_, opt_, i + 1, emit(st3, Some(path)))
    ELSE decode(fabuf_, opt_, i + 1, emit(st1, None))

\* mutant of transient: EINTR is not among the errors let through
transient_OnlyAgain(errno) == errno = "EAGAIN"

\* the read errors after which handle_fanotify returns Ok(())
transient(errno) == errno \in {"EAGAIN", "EINTR"}

\* handle_fanotify after the read: nread is the result of notify.read
handle_fanotify(nread, fabuf_, opt_, files_, closes_) ==
    LET st0 == [nread |-> 0, files |-> files_, closes |-> closes_,
                effects |-> <<>>, result |-> Ok]
    IN  IF IsErr(nread)
        THEN IF transient(nread[2]) THEN st0
             ELSE [st0 EXCEPT !.result = nread]
        ELSE decode(fabuf_, opt_, 1, [st0 EXCEPT !.nread = nread[2]])

\* --------------------------------------------------------- handle_command
\* The kernel's handling of a response record written to the notification
\* handle: accepted when the handle is open, the code is an allow or deny
\* and the descriptor belongs to an event awaiting its response.
notify_write(files_, pending_, response, fd) ==
    IF files_[notify_fd] = Closed THEN Err("EBADF")
    ELSE IF response \notin {FAN_ALLOW, FAN_DENY} THEN Err("EINVAL")
    ELSE IF fd \notin pending_ THEN Err("ENOENT")
    ELSE Ok

\* handle_command: line is what input.read_line appends to buf (a read
\* error when it is an Err, end of input when it is empty)
handle_command(line, buf, files_, closes_, pending_) ==
    LET st0 == [buf |-> buf, files |-> files_, closes |-> closes_,
                pending |-> pending_, effects |-> <<>>, result |-> Ok]
    IN
    IF IsErr(line) THEN [st0 EXCEPT !.result = line]
    ELSE IF Len(line[2]) = 0
    THEN [st0 EXCEPT !.result = Err("UnexpectedEof")]
    ELSE
    LET buf1   == buf \o line[2]
        parsed == scan(buf1)
        st1    == [st0 EXCEPT !.buf = buf1]
    IN  IF IsSome(parsed[1]) /\ IsSome(parsed[2])
        THEN LET resp == Unwrap(parsed[1])
                 fd   == Unwrap(parsed[2])
                 res  == notify_write(files_, pending_, resp, fd)
                 st2  == [st1 EXCEPT
                            !.effects = Append(@, <<"write", resp, fd>>),
                            !.pending = IF IsErr(res) THEN @ ELSE @ \ {fd}]
             IN  [close(st2, fd) EXCEPT !.result = res]
        ELSE [st1 EXCEPT !.result = Err("InvalidInput")]

\* ------------------------------------------------------------ environment
\* What a record of the kernel's queue is before the read copies it out:
\* the header fields, and the file the event is about (NoFile for an event
\* without one, whose fd field is FAN_NOFD).
NoFile == <<"NoFile">>

RecordTemplates ==
    \* records as the kernel builds them for this notification group
    [event_len : {MetadataSize}, vers : {FANOTIFY_METADATA_VERSION},
     mask : {FAN_OPEN, FAN_OPEN_PERM}, pid : {123}, target : TargetPaths]
    \cup
    { [event_len |-> MetadataSize, vers |-> FANOTIFY_METADATA_VERSION,
       mask |-> FAN_ACCESS_PERM, pid |-> 123, target |-> <<"a", "x.txt">>],
      [event_len |-> MetadataSize, vers |-> FANOTIFY_METADATA_VERSION,
       mask |-> FAN_Q_OVERFLOW, pid |-> FAN_NOFD, target |-> NoFile],
      [event_len |-> MetadataSize, vers |-> FANOTIFY_METADATA_VERSION,
       mask |-> FAN_OPEN, pid |-> 123, target |-> NoLink],
    \* records of another protocol version or another length
      [event_len |-> MetadataSize, vers |-> FANOTIFY_METADATA_VERSION - 1,
       mask |-> FAN_OPEN, pid |-> 123, target |-> <<"a", "x.txt">>],
      [event_len |-> MetadataSize \div 3, vers |-> FANOTIFY_METADATA_VERSION,
       mask |-> FAN_OPEN_PERM, pid |-> 123, target |-> <<"a", "b", "c.txt">>],
      [event_len |-> 2 * MetadataSize, vers |-> FANOTIFY_METADATA_VERSION,
       mask |-> FAN_OPEN, pid |-> 123, target |-> <<"a", "b", "c.txt">>] }

HasFile(t) == t.target # NoFile

\* the events for which the kernel holds the triggering process until a
\* response is written
HoldsProcess(mask) ==
    BitAnd(mask, FAN_OPEN_PERM) # 0 \/ BitAnd(mask, FAN_ACCESS_PERM) # 0

\* the lowest free descriptor number, as the kernel allocates them
FreeFds(files_) == {f \in DOMAIN files_ : files_[f] = Closed}
LowestFree(files_) ==
    CHOOSE f \in FreeFds(files_) : \A g \in FreeFds(files_) : f <= g

\* The kernel copying the records ts[i..] into the user buffer: it opens a
\* descriptor for each event about a file and, for a permission event,
\* holds the triggering process until the response arrives.
RECURSIVE deliver(_, _, _)
deliver(ts, i, k) ==
    IF i > Len(ts) THEN k
    ELSE
    LET t    == ts[i]
        fd   == IF HasFile(t) THEN LowestFree(k.files) ELSE FAN_NOFD
        slot == [event_len |-> t.event_len, vers |-> t.vers,
                 mask |-> t.mask, fd |-> fd, pid |-> t.pid]
        k1   == IF HasFile(t)
                THEN [k EXCEPT !.files[fd] = t.target,
                               !.closes[fd] = 0,
                               !.pending = IF HoldsProcess(t.mask)
                                           THEN @ \cup {fd} ELSE @ \ {fd}]
                ELSE k
    IN  deliver(ts, i + 1, [k1 EXCEPT !.slots = Append(@, slot)])

\* bytes of the record header that a read cut short still stores
TruncatedBytes == 12

\* A slot of which only the first TruncatedBytes bytes were overwritten:
\* event_len, vers and the low half of mask are new, fd and pid are old
\* (every flag of FanEvents lies in the low half of the mask).
Overwrite(old, new) ==
    [old EXCEPT !.event_len = new.event_len, !.vers = new.vers,
                !.mask = new.mask]

\* uninitialised memory of the buffer (Vec::set_len without a write)
UninitSlots ==
    { [event_len |-> 0, vers |-> 0, mask |-> 0, fd |-> 0, pid |-> 0],
      [event_len |-> MetadataSize, vers |-> FANOTIFY_METADATA_VERSION,
       mask |-> FAN_Q_OVERFLOW, fd |-> FAN_NOFD, pid |-> 7] }

\* the lines the operator types
Lines ==
    { <<"F", "A", "N", "_", "A", "L", "L", "O", "W", " ", "4", "\n">>,
      <<"F", "A", "N", "_", "D", "E", "N", "Y", " ", "5", "\n">>,
      <<"A", "L", "L", "O", "W", " ", "4", "\n">>,
      <<"F", "A", "N", "_", "D", "E", "N", "Y", " ", "x", "\n">>,
      <<"b", "o", "g", "u", "s", "\n">>,
    \* lines naming the notification handle and the control input
      <<"F", "A", "N", "_", "A", "L", "L", "O", "W", " ", "3", "\n">>,
      <<"F", "A", "N", "_", "D", "E", "N", "Y", " ", "0", "\n">> }

\* ------------------------------------------------------------------ state
VARIABLES
    opt,          \* the options after Opt::from_args_with_default
    pc,           \* where main is: "poll", "dispatch" or "exit"
    revents,      \* the ready sources main has still to dispatch
    exit,         \* what main returned, once pc = "exit"
    files,        \* the descriptor table: Closed, NoLink or the file's path
    pending,      \* descriptors of permission events awaiting a response
    closes,       \* close calls on each number since it was handed out
    stdinPipe,    \* lines typed and not yet read from descriptor 0
    stdinEof,     \* the operator has closed the control input
    stdinBuf,     \* lines read from descriptor 0 and held by io::stdin()
    command_buf,  \* the String main passes to handle_command
    fabuf,        \* the record buffer main passes to handle_fanotify
    typed,        \* lines typed so far
    reads,        \* calls of handle_fanotify so far
    last,         \* the latest handler call: its input, its effects in
                  \* order, its result, and the records the read delivered
    call          \* an application of one of the program's pure functions:
                  \* the function, its argument, and its result once done

vars == <<opt, pc, revents, exit, files, pending, closes, stdinPipe,
          stdinEof, stdinBuf, command_buf, fabuf, typed, reads, last, call>>

NoCall ==
    [handler |-> "none", input |-> Ok, result |-> Ok, effects |-> <<>>,
     batch |-> <<>>]

NotYet == <<"NotYet">>
NoApply == [fn |-> "none", arg |-> <<>>, ret |-> NotYet, done |-> FALSE]

\* the state in which main enters its loop
Start ==
    /\ opt \in {from_args_with_default(raw) : raw \in RawOpts}
    /\ pc = "poll"
    /\ revents = {}
    /\ exit = Ok
    /\ files = [f \in Fds |->
                  IF f <= 2 THEN <<"dev", "pts", "0">>
                  ELSE IF f = notify_fd THEN <<"anon_inode:[fanotify]">>
                  ELSE Closed]
    /\ pending = {}
    /\ closes = [f \in Fds |-> 0]
    /\ stdinPipe = <<>>
    /\ stdinEof = FALSE
    /\ stdinBuf = <<>>
    /\ command_buf = <<>>
    /\ \E g \in UninitSlots : fabuf = [i \in 1..MaxBufs |-> g]
    /\ typed = 0
    /\ reads = 0
    /\ last = NoCall

Init == Start /\ call = NoApply

\* The operator types a line on the control input.
TypeLine ==
    /\ pc = "poll"
    /\ ~stdinEof
    /\ typed < MaxLines
    /\ \E l \in Lines : stdinPipe' = Append(stdinPipe, l)
    /\ typed' = typed + 1
    /\ UNCHANGED <<call, opt, pc, revents, exit, files, pending, closes, stdinEof,
                   stdinBuf, command_buf, fabuf, reads, last>>

\* The operator closes the control input.
CloseStdin ==
    /\ pc = "poll"
    /\ ~stdinEof
    /\ stdinEof' = TRUE
    /\ UNCHANGED <<call, opt, pc, revents, exit, files, pending, closes, stdinPipe,
                   stdinBuf, command_buf, fabuf, typed, reads, last>>

\* poll(2) reports descriptor 0 readable when there are bytes or an end of
\* input to read, and flags a closed descriptor (POLLNVAL > 0)
StdinReady == stdinPipe # <<>> \/ stdinEof \/ files[STDIN_FILENO] = Closed

\* main: poll returns Ok(ready) with ready > 0
Poll ==
    /\ pc = "poll"
    /\ \E n \in BOOLEAN :
         /\ n => reads < MaxReads
         /\ revents' = (IF StdinReady THEN {"stdin"} ELSE {})
                       \cup (IF n THEN {"notify"} ELSE {})
    /\ revents' # {}
    /\ pc' = "dispatch"
    /\ UNCHANGED <<call, opt, exit, files, pending, closes, stdinPipe, stdinEof,
                   stdinBuf, command_buf, fabuf, typed, reads, last>>

\* main: poll returns an error (a signal interrupts the wait), which `?`
\* returns from main
PollInterrupted ==
    /\ pc = "poll"
    /\ pc' = "exit"
    /\ exit' = Err("EINTR")
    /\ UNCHANGED <<call, opt, revents, files, pending, closes, stdinPipe, stdinEof,
                   stdinBuf, command_buf, fabuf, typed, reads, last>>

\* mutant of Continue: the result of the handler is dropped instead of
\* being returned by `?`
Continue_IgnoreResult(result, rest) ==
    /\ pc' = (IF rest = {} THEN "poll" ELSE "dispatch")
    /\ exit' = exit
    /\ revents' = rest

\* after a handler: `?` leaves main on an error, otherwise the loop over
\* the pollfds goes on and then polls again
Continue(result, rest) ==
    IF IsErr(result)
    THEN pc' = "exit" /\ exit' = result /\ revents' = rest
    ELSE /\ pc' = (IF rest = {} THEN "poll" ELSE "dispatch")
         /\ exit' = exit
         /\ revents' = rest

\* main: the entry of descriptor 0 has revents > 0: handle_command on
\* io::stdin(), whose read_line takes a line it holds already or reads
\* descriptor 0 (taking the first k lines that are there)
DispatchCommand ==
    /\ pc = "dispatch"
    /\ "stdin" \in revents
    /\ \E k \in 0..Len(stdinPipe) :
         LET fromBuf == stdinBuf # <<>>
             line == IF fromBuf THEN <<"Ok", Head(stdinBuf)>>
                     ELSE IF files[STDIN_FILENO] = Closed THEN Err("EBADF")
                     ELSE IF k > 0 THEN <<"Ok", Head(stdinPipe)>>
                     ELSE <<"Ok", <<>> >>
             r == handle_command(line, command_buf, files, closes, pending)
         IN  /\ IF fromBuf \/ files[STDIN_FILENO] = Closed THEN k = 0
                ELSE IF stdinPipe # <<>> THEN k > 0
                ELSE stdinEof
             /\ stdinBuf' = IF fromBuf THEN Tail(stdinBuf)
                            ELSE IF k > 0 THEN SubSeq(stdinPipe, 2, k)
                            ELSE stdinBuf
             /\ stdinPipe' = SubSeq(stdinPipe, k + 1, Len(stdinPipe))
             /\ command_buf' = r.buf
             /\ files' = r.files
             /\ closes' = r.closes
             /\ pending' = r.pending
             /\ last' = [handler |-> "command", input |-> line,
                         result |-> r.result, effects |-> r.effects,
                         batch |-> <<>>]
             /\ Continue(r.result, revents \ {"stdin"})
    /\ UNCHANGED <<call, opt, stdinEof, fabuf, typed, reads>>

\* what notify.read can return: an error, or the bytes of n records of
\* which the last may be cut short
ReadErrors == {"EAGAIN", "EINTR", "EMFILE"}

\* a record longer than the header, and the records tried after it
LongRecord ==
    [event_len |-> 2 * MetadataSize, vers |-> FANOTIFY_METADATA_VERSION,
     mask |-> FAN_OPEN, pid |-> 123, target |-> <<"a", "b", "c.txt">>]
Trailers ==
    { [event_len |-> MetadataSize, vers |-> FANOTIFY_METADATA_VERSION,
       mask |-> FAN_Q_OVERFLOW, pid |-> FAN_NOFD, target |-> NoFile],
      [event_len |-> MetadataSize, vers |-> FANOTIFY_METADATA_VERSION,
       mask |-> FAN_OPEN, pid |-> 123, target |-> <<"a", "x.txt">>] }

\* the reads: every sequence of records shorter than the buffer, and the
\* sequences filling the buffer that begin with the long record
Batches ==
    UNION { [1..n -> RecordTemplates] : n \in 1..(MaxBufs - 1) }
       \cup { ts \in [1..MaxBufs -> Trailers \cup {LongRecord}] :
                 /\ ts[1] = LongRecord
                 /\ \A i \in 2..MaxBufs : ts[i] \in Trailers }

\* main: the entry of notify_fd has revents > 0: handle_fanotify, whose
\* read fails
DispatchFanotifyError ==
    /\ pc = "dispatch"
    /\ "stdin" \notin revents
    /\ "notify" \in revents
    /\ \E e \in ReadErrors \cup {"EBADF"} :
         LET nread == Err(e)
             r == handle_fanotify(nread, fabuf, opt, files, closes)
         IN  /\ (e = "EBADF") <=> (files[notify_fd] = Closed)
             /\ files' = r.files
             /\ closes' = r.closes
             /\ last' = [handler |-> "fanotify", input |-> nread,
                         result |-> r.result, effects |-> r.effects,
                         batch |-> <<>>]
             /\ Continue(r.result, revents \ {"notify"})
    /\ reads' = reads + 1
    /\ UNCHANGED <<call, opt, pending, stdinPipe, stdinEof, stdinBuf, command_buf,
                   fabuf, typed>>

\* main: the entry of notify_fd has revents > 0: handle_fanotify, whose
\* read stores the records ts (the last one cut short when cut holds)
DispatchFanotify ==
    /\ pc = "dispatch"
    /\ "stdin" \notin revents
    /\ "notify" \in revents
    /\ files[notify_fd] # Closed
    /\ \E ts \in Batches, cut \in BOOLEAN :
         LET n     == Len(ts)
             whole == IF cut THEN SubSeq(ts, 1, n - 1) ELSE ts
             nread == IF cut
                      THEN (n - 1) * MetadataSize + TruncatedBytes
                      ELSE n * MetadataSize
         IN  /\ Cardinality({i \in 1..Len(whole) : HasFile(whole[i])})
                  <= Cardinality(FreeFds(files))
             /\ LET k == deliver(whole, 1,
                                 [files |-> files, closes |-> closes,
                                  pending |-> pending, slots |-> <<>>])
                    buf == [i \in 1..MaxBufs |->
                              IF i <= Len(k.slots) THEN k.slots[i]
                              ELSE IF cut /\ i = n
                              THEN Overwrite(fabuf[i],
                                             [ts[n] EXCEPT !.target = NoFile])
                              ELSE fabuf[i]]
                    r == handle_fanotify(<<"Ok", nread>>, buf, opt,
                                         k.files, k.closes)
                IN  /\ fabuf' = buf
                    /\ pending' = k.pending
                    /\ files' = r.files
                    /\ closes' = r.closes
                    /\ last' = [handler |-> "fanotify",
                                input |-> <<"Ok", nread>>,
                                result |-> r.result, effects |-> r.effects,
                                batch |-> whole]
                    /\ Continue(r.result, revents \ {"notify"})
    /\ reads' = reads + 1
    /\ UNCHANGED <<call, opt, stdinPipe, stdinEof, stdinBuf, command_buf, typed>>

Next ==
    \/ TypeLine
    \/ CloseStdin
    \/ Poll
    \/ PollInterrupted
    \/ DispatchCommand
    \/ DispatchFanotifyError
    \/ DispatchFanotify

Spec == Init /\ [][Next]_vars

\* --------------------------------------------------- the pure functions
\* The functions of the program that read and write no state, each applied
\* to an argument drawn at the start: call.arg is the argument, call.ret the
\* result once call.done holds.  main is not running.
RECURSIVE SumOf(_)
SumOf(S) ==
    IF S = {} THEN 0
    ELSE LET x == CHOOSE y \in S : TRUE IN x + SumOf(S \ {x})

Range(f) == {f[k] : k \in DOMAIN f}

\* the masks an entry is rendered with: every combination of the flags of
\* FanEvents, and masks with a bit that no flag of FanEvents has
Masks ==
    {SumOf(S) : S \in SUBSET Range(FanEventsValues)}
       \cup {4, 4 + FAN_OPEN, 4 + FAN_ACCESS + FAN_MODIFY}

Entries ==
    [mask : Masks,
     fd   : {None, Some(2), Some(10)},
     pid  : {None, Some(1)},
     path : {None, Some(<<"foo", "bar">>), Some(<<"a", "b", "c.txt">>)}]

\* Opt as structopt fills it, for every combination of -r, -m, -f and -p
RawSwitches ==
    [recursive : BOOLEAN, mount : BOOLEAN, filesystem : BOOLEAN,
     namespace : {None, Some(1)}, paths : WatchLists]

Enums ==
    { [name |-> "FanEvents", names |-> FanEventsNames,
       flags |-> FanEventsValues],
      [name |-> "FanResponse", names |-> FanResponseNames,
       flags |-> FanResponseValues] }

DeclaredNames == Range(FanEventsNames) \cup Range(FanResponseNames)

\* the strings parsed: the flag names of both enumerations, their proper
\* beginnings, the names with a character before or after, and a name in
\* lower case
ParsedStrings ==
    DeclaredNames
       \cup UNION { {SubSeq(n, 1, k) : k \in 0..(Len(n) - 1)} :
                       n \in DeclaredNames }
       \cup {n \o <<c>> : n \in DeclaredNames, c \in {" ", "S", "\n"}}
       \cup {<<c>> \o n : n \in DeclaredNames, c \in {" ", "_"}}
       \cup { <<"f", "a", "n", "_", "a", "l", "l", "o", "w">>,
              <<"F", "A", "N", "_", "A", "L", "L", "O", "W", "|",
                "F", "A", "N", "_", "D", "E", "N", "Y">> }

Applying(fn, arg) == call = [fn |-> fn, arg |-> arg, ret |-> NotYet,
                             done |-> FALSE]

InitPure ==
    /\ Start
    /\ ~opt.recursive
    /\ fabuf[1].vers = 0
    /\ \/ \E entry \in Entries : Applying("write_to", entry)
       \/ \E e \in Enums, s \in ParsedStrings :
             Applying("from_str", [enum |-> e, s |-> s])
       \/ \E e \in Enums : \E k \in 1..Len(e.flags) :
             Applying("as_ref", [enum |-> e, flag |-> e.flags[k]])
       \/ \E raw \in RawSwitches : Applying("from_args_with_default", raw)

Return(fn, ret) ==
    /\ call.fn = fn
    /\ ~call.done
    /\ call' = [call EXCEPT !.ret = ret, !.done = TRUE]
    /\ UNCHANGED <<opt, pc, revents, exit, files, pending, closes, stdinPipe,
                   stdinEof, stdinBuf, command_buf, fabuf, typed, reads, last>>

Apply_write_to == Return("write_to", write_to(call.arg))

Apply_from_str ==
    Return("from_str",
           from_str(call.arg.enum.names, call.arg.enum.flags, call.arg.s))

Apply_as_ref ==
    Return("as_ref",
           as_ref(call.arg.enum.names, call.arg.enum.flags, call.arg.flag))

Apply_from_args_with_default ==
    Return("from_args_with_default", from_args_with_default(call.arg))

NextPure ==
    \/ Apply_write_to
    \/ Apply_from_str
    \/ Apply_as_ref
    \/ Apply_from_args_with_default

SpecPure == InitPure /\ [][NextPure]_vars

\* ----------------------------------------------------------------- claims
\* the latest handler call was handle_command and read_line gave it a line
LineRead ==
    /\ last.handler = "command"
    /\ ~IsErr(last.input)
    /\ Len(last.input[2]) > 0

\* the latest handler call was handle_command and read_line returned 0
EofRead ==
    /\ last.handler = "command"
    /\ ~IsErr(last.input)
    /\ Len(last.input[2]) = 0

\* a line is well formed when its own first two words are a response name
\* and an integer
WellFormed(line) == IsSome(scan(line)[1]) /\ IsSome(scan(line)[2])

\* C1: every well-formed line `<response> <fd>` handled by handle_command
\* makes it write exactly one response record, holding the response code and
\* the descriptor number of that very line, and then close the descriptor
\* that line names.
C1_ResponseOfThisLine ==
    (LineRead /\ WellFormed(last.input[2])) =>
        LET this == scan(last.input[2])
        IN  last.effects = << <<"write", Unwrap(this[1]), Unwrap(this[2])>>,
                              <<"close", Unwrap(this[2])>> >>

\* C2: no descriptor the kernel delivered is closed more than once, and a
\* non-permission descriptor whose path was resolved has been closed exactly
\* once when handle_fanotify returns.
C2_ClosedAtMostOnce ==
    /\ \A f \in EventFds : closes[f] <= 1
    /\ last.handler = "fanotify" =>
         \A p \in 1..Len(last.effects) :
            LET e == last.effects[p] IN
            (e[1] = "resolve"
               /\ BitAnd(fabuf[e[2]].mask, FAN_OPEN_PERM) = 0
               /\ BitAnd(fabuf[e[2]].mask, FAN_ACCESS_PERM) = 0)
            => closes[fabuf[e[2]].fd] = 1

\* C7: a malformed line (first word no response name, or second word no
\* integer) makes handle_command return an error without writing a response
\* record and without closing a descriptor, wherever the line comes in the
\* sequence of commands.
C7_MalformedLineDoesNothing ==
    (LineRead /\ ~WellFormed(last.input[2])) =>
        IsErr(last.result) /\ last.effects = <<>>

\* C8: after handle_command rejects a malformed line the loop is still
\* running (it goes back to the wait).
C8_MalformedLineKeepsLoop ==
    (LineRead /\ IsErr(last.result) /\ last.result[2] = "InvalidInput")
        => pc # "exit"

\* C9 as stated: end of input on the control channel writes nothing, closes
\* nothing, and leaves the loop running for the notification events.
C9_EofKeepsLoop ==
    EofRead => (last.effects = <<>> /\ pc # "exit")

\* C9 as the code has it: end of input on the control channel writes
\* nothing and closes nothing, and handle_command returns an UnexpectedEof
\* error with which main returns: the loop ends.
C9_EofEndsLoop ==
    EofRead =>
        /\ last.effects = <<>>
        /\ IsErr(last.result) /\ last.result[2] = "UnexpectedEof"
        /\ pc = "exit"
        /\ exit = last.result

\* C9 witness: end of input was handled while a permission event awaits its
\* response.
C9_Witness ==
    EofRead /\ pending # {} /\ pc = "exit"

\* the latest handler call was handle_fanotify and its read returned bytes
BatchRead == last.handler = "fanotify" /\ ~IsErr(last.input)

PermMask(mask) ==
    BitAnd(mask, FAN_OPEN_PERM) # 0 \/ BitAnd(mask, FAN_ACCESS_PERM) # 0

\* the effects of the latest call that are output lines
Printed == SelectSeq(last.effects, LAMBDA e : e[1] = "print")

\* C3: for every record handle_fanotify decoded whose descriptor resolved:
\* without a permission bit the descriptor is closed right after the
\* resolution, before the filter and before the output line; with a
\* permission bit it is not closed by the call and is open when the call
\* returns, whether the entry is printed or dropped.
C3_DescriptorLifecycle ==
    last.handler = "fanotify" =>
        \A p \in 1..Len(last.effects) :
            LET e  == last.effects[p]
                fd == fabuf[e[2]].fd
            IN  e[1] = "resolve" =>
                  IF PermMask(fabuf[e[2]].mask)
                  THEN /\ files[fd] # Closed
                       /\ \A q \in 1..Len(last.effects) :
                             ~(last.effects[q][1] = "close"
                                 /\ last.effects[q][2] = fd)
                  ELSE /\ p < Len(last.effects)
                       /\ last.effects[p + 1] = <<"close", fd>>
                       /\ files[fd] = Closed
                       /\ \A q \in 1..Len(last.effects) :
                             (last.effects[q][1] \in {"print", "drop"}
                                 /\ last.effects[q][2] = e[2]) => q > p + 1

\* C3 witness: one call in which the filter dropped a permission entry,
\* whose descriptor is open, and a non-permission descriptor was closed.
C3_Witness ==
    /\ last.handler = "fanotify"
    /\ \E p \in 1..Len(last.effects) :
          /\ last.effects[p][1] = "drop"
          /\ PermMask(fabuf[last.effects[p][2]].mask)
          /\ files[fabuf[last.effects[p][2]].fd] # Closed
    /\ \E p \in 1..Len(last.effects) :
          /\ last.effects[p][1] = "print"
          /\ ~PermMask(fabuf[last.effects[p][2]].mask)
          /\ fabuf[last.effects[p][2]].fd >= 0

\* C4: in recursive mode without a namespace, an entry with a resolved path
\* is printed if and only if the path is a watched path or below one, for at
\* least one watched path of the list.
C4_EmittedIffUnderSomeWatch ==
    (last.handler = "fanotify" /\ opt.recursive /\ ~IsSome(opt.namespace)) =>
        \A p \in 1..Len(last.effects) :
            LET e == last.effects[p] IN
            e[1] = "resolve" =>
               ( (\E k \in 1..Len(opt.paths) : starts_with(e[3], opt.paths[k]))
                 <=>
                 (\E q \in 1..Len(last.effects) :
                     last.effects[q][1] = "print"
                        /\ last.effects[q][2] = e[2]) )

\* the entry the record i of the latest read is to be printed as
ExpectedEntry(i) ==
    [mask |-> last.batch[i].mask,
     fd   |-> IF HasFile(last.batch[i]) THEN Some(fabuf[i].fd) ELSE None,
     pid  |-> IF last.batch[i].pid >= 0 THEN Some(last.batch[i].pid)
              ELSE None,
     path |-> IF HasFile(last.batch[i]) THEN Some(last.batch[i].target)
              ELSE None]

\* the read delivered only records of the right version and length whose
\* descriptors resolve, and the filter is inactive
PlainBatch ==
    /\ BatchRead
    /\ ~opt.recursive \/ IsSome(opt.namespace)
    /\ \A i \in 1..Len(last.batch) :
          /\ last.batch[i].event_len = MetadataSize
          /\ last.batch[i].vers = FANOTIFY_METADATA_VERSION
          /\ last.batch[i].target # NoLink

\* C5: with the filter inactive and every path resolving, a read of N
\* well-formed records (followed or not by the beginning of a further
\* record) makes handle_fanotify print exactly those N entries, in the order
\* of the records, and return Ok.
C5_AllRecordsInOrder ==
    PlainBatch =>
        /\ last.result = Ok
        /\ Len(Printed) = Len(last.batch)
        /\ \A i \in 1..Len(last.batch) :
              Printed[i] = <<"print", i, ExpectedEntry(i)>>

\* C5 witness: a read of two well-formed records and the beginning of none,
\* both printed.
C5_Witness ==
    /\ PlainBatch
    /\ Len(last.batch) = 2
    /\ last.input[2] = 2 * MetadataSize
    /\ Len(Printed) = 2

\* C6: a read holding a record of another version makes handle_fanotify
\* return an error, wherever the record is and whatever the other records
\* are.
C6_VersionMismatchFails ==
    (BatchRead /\ \E i \in 1..Len(last.batch) :
                     last.batch[i].vers # FANOTIFY_METADATA_VERSION)
        => IsErr(last.result)

\* C10: a read failing with EAGAIN or EINTR makes handle_fanotify return Ok
\* having printed nothing and closed nothing, and the loop goes on; a read
\* failing with another error makes handle_fanotify return that error, with
\* which main returns.
C10_ReadErrors ==
    [][ (last'.handler = "fanotify" /\ reads' = reads + 1
            /\ IsErr(last'.input)) =>
          IF last'.input[2] \in {"EAGAIN", "EINTR"}
          THEN /\ last'.result = Ok
               /\ last'.effects = <<>>
               /\ files' = files /\ closes' = closes
               /\ pc' # "exit"
          ELSE /\ last'.result = last'.input
               /\ pc' = "exit"
               /\ exit' = last'.input ]_vars

\* C10 witness: a read interrupted by a signal, after which main polls again.
C10_Witness ==
    /\ last.handler = "fanotify"
    /\ IsErr(last.input)
    /\ last.input[2] = "EINTR"
    /\ pc = "poll"

\* the pieces of a text between the occurrences of a separator
Fields(s, sep) ==
    LET at == SelectSeq([i \in 1..Len(s) |-> i], LAMBDA i : s[i] = sep)
        edge(k) == IF k = 0 THEN 0
                   ELSE IF k > Len(at) THEN Len(s) + 1
                   ELSE at[k]
    IN  [k \in 1..(Len(at) + 1) |-> SubSeq(s, edge(k - 1) + 1, edge(k) - 1)]

\* the names of the flags of FanEvents whose bit is set in a mask, in the
\* order of the declaration
SetFlagNames(mask) ==
    LET idx == SelectSeq([k \in 1..Len(FanEventsValues) |-> k],
                         LAMBDA k : BitAnd(mask, FanEventsValues[k]) # 0)
    IN  [i \in 1..Len(idx) |-> FanEventsNames[idx[i]]]

\* the pure function fn has been applied
Applied(fn) == call.fn = fn /\ call.done

\* C11: write_to renders an entry as four fields separated by tabs: the
\* names of exactly the declared flags whose bit is set in the mask, in
\* declaration order, joined by "|" with none before or after; the
\* descriptor number in decimal, or "-"; the pid in decimal, or "-"; the
\* path, or "-".
C11_FourFields ==
    Applied("write_to") =>
        LET entry  == call.arg
            fields == Fields(call.ret, "\t")
            names  == SetFlagNames(entry.mask)
            Number(field, n) ==
                IF IsSome(n)
                THEN IsDigit(field[1]) /\ i32_from_str(field) = n
                ELSE field = <<"-">>
        IN  /\ Len(fields) = 4
            /\ IF Len(names) = 0 THEN fields[1] = <<>>
               ELSE Fields(fields[1], "|") = names
            /\ Number(fields[2], entry.fd)
            /\ Number(fields[3], entry.pid)
            /\ fields[4] = IF IsSome(entry.path)
                           THEN as_bytes(Unwrap(entry.path))
                           ELSE <<"-">>

\* C11 witness: the entry of the test entry_display and its text
C11_Witness ==
    /\ Applied("write_to")
    /\ call.arg = [mask |-> FAN_ACCESS + FAN_MODIFY, fd |-> Some(2),
                   pid |-> Some(1), path |-> Some(<<"foo", "bar">>)]
    /\ call.ret =
        <<
          "F", "A", "N", "_", "A", "C", "C", "E", "S", "S",
          "|", "F", "A", "N", "_", "M", "O", "D", "I", "F",
          "Y", "\t", "2", "\t", "1", "\t", "/", "foo", "/",
          "bar" >>

\* C12: for every flag of FanEvents and of FanResponse, parsing the name
\* as_ref returns gives that flag back; parsing one of the declared names
\* gives the flag of that name, and parsing any other string fails with a
\* CEnumParseError.
C12_RoundTrip ==
    /\ Applied("as_ref") =>
          LET parsed == from_str(call.arg.enum.names, call.arg.enum.flags,
                                 call.ret)
          IN  ~IsErr(parsed) /\ parsed[2] = call.arg.flag
    /\ Applied("from_str") =>
          LET e == call.arg.enum
              s == call.arg.s
          IN  IF s \in Range(e.names)
              THEN /\ ~IsErr(call.ret)
                   /\ call.ret[2] \in Range(e.flags)
                   /\ as_ref(e.names, e.flags, call.ret[2]) = s
              ELSE /\ IsErr(call.ret)
                   /\ call.ret[2] = <<"CEnumParseError", s>>

\* C12 witness: FAN_ACCESS_PERM, whose name begins with the name of
\* another flag, rendered
C12_Witness ==
    /\ Applied("as_ref")
    /\ call.arg.enum.name = "FanEvents"
    /\ call.arg.flag = FAN_ACCESS_PERM
    /\ call.ret = <<"F", "A", "N", "_", "A", "C", "C", "E", "S",
                    "S", "_", "P", "E", "R", "M">>

\* C13 as stated: after from_args_with_default, for every combination of
\* -r, -m and -f, filesystem set implies mount set and mount set implies
\* recursive set.
C13_FilesystemMountRecursive ==
    Applied("from_args_with_default") =>
        /\ call.ret.filesystem => call.ret.mount
        /\ call.ret.mount => call.ret.recursive

\* C13 as the code has it: filesystem is as given; recursive is set when
\* any of -r, -m, -f is given; mount is set when -m is given, or -r without
\* -f.  So filesystem implies recursive, mount implies recursive, and
\* recursive implies mount or filesystem; filesystem does not imply mount.
C13_SwitchRules ==
    Applied("from_args_with_default") =>
        LET raw == call.arg
            o   == call.ret
        IN  /\ o.filesystem = raw.filesystem
            /\ o.recursive = (raw.recursive \/ raw.mount \/ raw.filesystem)
            /\ o.mount = (raw.mount \/ (raw.recursive /\ ~raw.filesystem))
            /\ o.filesystem => o.recursive
            /\ o.mount => o.recursive
            /\ o.recursive => (o.mount \/ o.filesystem)
            /\ o.namespace = raw.namespace /\ o.paths = raw.paths

\* C13 witness: -f alone gives filesystem and recursive without mount
C13_Witness ==
    /\ Applied("from_args_with_default")
    /\ call.arg.filesystem /\ ~call.arg.mount /\ ~call.arg.recursive
    /\ call.ret.filesystem /\ call.ret.recursive /\ ~call.ret.mount

\* the slots the latest call of handle_fanotify accepted, in order
Accepted ==
    LET acc == SelectSeq(last.effects, LAMBDA e : e[1] = "accept")
    IN  [k \in 1..Len(acc) |-> acc[k][2]]

\* the byte of the read at which slot i begins
Offset(i) == (i - 1) * MetadataSize

\* C14: after a record is accepted the next record the decoder takes
\* begins event_len bytes after the beginning of the accepted one, also for
\* an event_len above the size of the header.
C14_CursorAdvancesByEventLen ==
    BatchRead =>
        \A k \in 1..(Len(Accepted) - 1) :
            Offset(Accepted[k + 1])
                = Offset(Accepted[k]) + fabuf[Accepted[k]].event_len

\* C15: every descriptor of a permission event that handle_fanotify
\* resolved and left open has its number on an output line printed by the
\* same call, whatever the watch configuration.
C15_OpenPermissionDescriptorPrinted ==
    last.handler = "fanotify" =>
        \A p \in 1..Len(last.effects) :
            LET e  == last.effects[p]
                fd == fabuf[e[2]].fd
            IN  (e[1] = "resolve" /\ PermMask(fabuf[e[2]].mask)
                    /\ files[fd] # Closed)
                => \E q \in 1..Len(last.effects) :
                      /\ last.effects[q][1] = "print"
                      /\ last.effects[q][2] = e[2]
                      /\ last.effects[q][3].fd = Some(fd)

\* C16: whenever the loop is back at the wait and the wait has nothing to
\* report for the control input, no complete line received from the
\* control input is still unprocessed: every line that was there at the
\* wakeup has been handled.
C16_ControlInputReadInFull ==
    (pc = "poll" /\ ~StdinReady) => stdinBuf = <<>>

\* the bytes of the read that the first k accepted records declare
RECURSIVE Consumed(_)
Consumed(k) ==
    IF k = 0 THEN 0 ELSE Consumed(k - 1) + fabuf[Accepted[k]].event_len

\* the slot the decoder looked at after the last one it accepted, and the
\* bytes of the read that were left then
NextSlot == IF Len(Accepted) = 0 THEN 1 ELSE Accepted[Len(Accepted)] + 1
Remaining == last.input[2] - Consumed(Len(Accepted))

\* C17: when the record the decoder comes to declares a length below the
\* size of the header although the bytes of a header remain, or a length
\* above the bytes that remain, handle_fanotify returns an error and the
\* loop ends.
C17_InconsistentLengthFatal ==
    (BatchRead /\ NextSlot <= MaxBufs /\ Remaining >= MetadataSize
        /\ (fabuf[NextSlot].event_len < MetadataSize
               \/ fabuf[NextSlot].event_len > Remaining))
    => (IsErr(last.result) /\ pc = "exit")

\* C18: main leaves its loop only when handle_command or handle_fanotify
\* returned an error, with that error; no outcome of the wait ends it.
C18_OnlyHandlerFailureEndsLoop ==
    pc = "exit" =>
        /\ last.handler \in {"command", "fanotify"}
        /\ IsErr(last.result)
        /\ exit = last.result

\* a record the latest call decoded: slot i was accepted and its path was
\* resolved, or it has no descriptor
Decoded(i) ==
    /\ \E p \in 1..Len(last.effects) :
          last.effects[p][1] = "accept" /\ last.effects[p][2] = i
    /\ \/ fabuf[i].fd < 0
       \/ \E p \in 1..Len(last.effects) :
             last.effects[p][1] = "resolve" /\ last.effects[p][2] = i

\* C19: with a namespace set, or with recursive mode off, the filter drops
\* nothing: every record handle_fanotify decoded is printed, whatever its
\* path and the watch list.
C19_NoFilterWithoutRecursiveOrWithNamespace ==
    (last.handler = "fanotify" /\ (IsSome(opt.namespace) \/ ~opt.recursive))
    => /\ \A p \in 1..Len(last.effects) : last.effects[p][1] # "drop"
       /\ \A i \in 1..MaxBufs :
             Decoded(i) => \E q \in 1..Len(Printed) : Printed[q][2] = i

\* C19 witness: recursive mode with a namespace, and an entry printed whose
\* path is under no watched path
C19_Witness ==
    /\ last.handler = "fanotify"
    /\ opt.recursive /\ IsSome(opt.namespace)
    /\ \E q \in 1..Len(Printed) :
          /\ IsSome(Printed[q][3].path)
          /\ \A k \in 1..Len(opt.paths) :
                ~starts_with(Unwrap(Printed[q][3].path), opt.paths[k])

\* the slots whose fields the latest call read
Inspected ==
    LET ins == SelectSeq(last.effects, LAMBDA e : e[1] = "inspect")
    IN  {ins[k][2] : k \in 1..Len(ins)}

\* C20: in a decode pass the counter of remaining bytes never goes below
\* zero, and every slot whose fields are read lies within the bytes the
\* read returned and holds a record this read stored whole: what the buffer
\* held before is never decoded.
C20_CounterAndSlotsWithinRead ==
    BatchRead =>
        /\ \A p \in 1..Len(last.effects) :
              last.effects[p][1] = "accept" => last.effects[p][3] >= 0
        /\ \A i \in Inspected :
              /\ Offset(i) + MetadataSize <= last.input[2]
              /\ i <= Len(last.batch)

\* C20 witness: a read of one record and the beginning of a second one,
\* whose slot reads as a record of the right length and version; only the
\* first slot was read.
C20_Witness ==
    /\ BatchRead
    /\ last.input[2] = MetadataSize + TruncatedBytes
    /\ Accepted = <<1>>
    /\ Inspected = {1}
    /\ fabuf[2].event_len = MetadataSize
    /\ fabuf[2].vers = FANOTIFY_METADATA_VERSION

\* C21: the notification handle and the control input descriptor are open
\* in every state: no sequence of reads and command lines, whatever
\* descriptor number a line names, makes the loop close either of them.
C21_HandlesStayOpen ==
    /\ files[notify_fd] # Closed
    /\ files[STDIN_FILENO] # Closed

====
